---- MODULE Spec2Model ----
(***************************************************************************)
(* A model of the notebook src/module_user_guide.ipynb: the feed-forward   *)
(* unit MyNeuralNet, the manual variational module MyModule (inference,    *)
(* generative, loss) and the Pyro module MyPyroModule (model, guide),      *)
(* driven by the forward schematic of the base class and by an external    *)
(* optimizer.                                                              *)
(*                                                                         *)
(* Numbers.  A tensor entry is an integer number of units of 1/SCALE, and  *)
(* SCALE is the inverse of the code's epsilon 1e-4, so that epsilon is one *)
(* unit.  Products and quotients round toward zero (sign-symmetric, like   *)
(* IEEE rounding).  exp, log and sqrt are computed on this grid by range   *)
(* reduction and series; exp is positive, and a result below the grid's    *)
(* resolution is its smallest positive value.  The parameter values the    *)
(* model enumerates are small (a few units of magnitude), so the range     *)
(* limits of float32 (exp underflowing to 0 below about -104 and           *)
(* overflowing above about 88) are outside the modelled parameter range.   *)
(* The logarithm of zero is the value NEG_INF, and a tensor entry computed *)
(* from it is NON_FINITE.                                                  *)
(***************************************************************************)
EXTENDS Integers, Sequences, FiniteSets, TLC

(* ------------------------------- state -------------------------------- *)
VARIABLES
    module,              \* the module under training: its class and its parameters
    rng,                 \* the state of torch's process-wide random generator
    steps,               \* the number of optimizer steps taken
    pc,                  \* where the trainer is in the current pass
    tensors,             \* the batch mapping of the current pass
    rng0,                \* the generator's state when inference (or guide) was called
    inference_outputs,   \* forward's local: the dictionary inference returned
    replay_outputs,      \* what inference returned when re-run from the state rng0
    generative_inputs,   \* forward's local: the dictionary _get_generative_input returned
    generative_outputs,  \* forward's local: the dictionary generative returned
    gen_calls,           \* the number of calls of generative in this pass
    losses,              \* forward's local: the LossRecorder loss returned
    fn_args,             \* what _get_fn_args_from_batch returned
    guide_trace,         \* the sites guide declared
    model_trace,         \* the sites model declared
    last_library         \* history: the size factors the previous pass computed

vars ==
    <<module, rng, steps, pc, tensors, rng0, inference_outputs, replay_outputs,
      generative_inputs, generative_outputs, gen_calls, losses, fn_args,
      guide_trace, model_trace, last_library>>

(* ------------------------------ bounds -------------------------------- *)
\* number of rows of a batch
BATCH == 2
\* n_input of the modules: the number of features (genes)
N_INPUT == 3
\* n_latent of the modules
N_LATENT == 2
\* width of the hidden layer of MyNeuralNet (128 in the source)
N_HIDDEN == 2
\* largest count in a batch entry
MaxCount == 2
\* number of optimizer steps of a run
MaxSteps == 2
\* number of batches the data loader can supply
NBatches == 2
\* number of gradient directions the optimizer can follow
NGrads == 1
\* number of states of the random generator
RNG_PERIOD == 3

(* ------------------------- program constants -------------------------- *)
\* 1 / 1e-4: the epsilon of nb_logits is one unit of the grid
EPS_INV == 10000
\* the seed of the run, which fixes the draw of the initial parameters
SEED == 1
SCALE == EPS_INV
EPS == SCALE \div EPS_INV

(* ------------------------------ numbers ------------------------------- *)
NEG_INF == -(SCALE * 100000)
NON_FINITE == NEG_INF - 1
IsFinite(a) == a > NEG_INF

Abs(a) == IF a < 0 THEN -a ELSE a
Max(a, b) == IF a >= b THEN a ELSE b

\* integer quotient rounded toward zero, b > 0
DivT(a, b) == IF a >= 0 THEN a \div b ELSE -((-a) \div b)

\* product of two grid values, for a, b >= 0
MulPos(a, b) == (a \div SCALE) * b + ((a % SCALE) * b) \div SCALE

\* product of two grid values
Mul(a, b) ==
    IF (a < 0) = (b < 0) THEN MulPos(Abs(a), Abs(b)) ELSE -MulPos(Abs(a), Abs(b))

\* quotient of two grid values, b > 0
Quo(a, b) == DivT(a * SCALE, b)

RECURSIVE ExpSeries(_, _, _)
\* sum of the terms r^k / k! of exp(r), from term number k on, 0 <= r < SCALE
ExpSeries(r, term, k) ==
    IF term = 0 THEN 0
    ELSE term + ExpSeries(r, (term * r) \div (k * SCALE), k + 1)

\* e
E_UNITS == ExpSeries(SCALE - 1, SCALE, 1) + 1

RECURSIVE ExpPosInt(_)
\* exp(q) for an integer q >= 0
ExpPosInt(q) == IF q = 0 THEN SCALE ELSE Mul(ExpPosInt(q - 1), E_UNITS)

\* exp(a) for a grid value a >= 0
ExpPos(a) == Mul(ExpPosInt(a \div SCALE), ExpSeries(a % SCALE, SCALE, 1))

\* torch.exp: exp(a) > 0 for every a
Exp(a) == IF a >= 0 THEN ExpPos(a) ELSE Max(1, Quo(SCALE, ExpPos(-a)))

RECURSIVE LogSeries(_, _, _)
\* sum of y^k / k over the odd k from k on, power = y^k
LogSeries(y, power, k) ==
    IF power = 0 THEN 0
    ELSE DivT(power, k) + LogSeries(y, Mul(Mul(power, y), y), k + 2)

\* log 2
LN2 == 2 * LogSeries(Quo(SCALE, 3 * SCALE), Quo(SCALE, 3 * SCALE), 1)

RECURSIVE LogNorm(_, _)
\* log(a) for a > 0, k * log 2 already taken out
LogNorm(a, k) ==
    IF a >= 2 * SCALE THEN LogNorm(a \div 2, k + 1)
    ELSE IF a < SCALE THEN LogNorm(a * 2, k - 1)
    ELSE LET y == Quo(a - SCALE, a + SCALE)
         IN  k * LN2 + 2 * LogSeries(y, y, 1)

\* torch.log: log(0) is not finite, and neither is the log of a non-finite value
Log(a) ==
    IF ~IsFinite(a) THEN NON_FINITE
    ELSE IF a = 0 THEN NEG_INF
    ELSE LogNorm(a, 0)

RECURSIVE SqrtBetween(_, _, _)
\* the largest s in lo..hi with s * s <= n, where lo * lo <= n
SqrtBetween(n, lo, hi) ==
    IF lo >= hi THEN lo
    ELSE LET mid == (lo + hi + 1) \div 2
         IN  IF mid * mid <= n THEN SqrtBetween(n, mid, hi)
             ELSE SqrtBetween(n, lo, mid - 1)

\* torch.sqrt of a grid value a >= 0: sqrt(a / SCALE) * SCALE = sqrt(100 a) * 10
Sqrt(a) == SqrtBetween(a * 100, 0, 40000) * (SCALE \div 1000)

(* ------------------------------ tensors ------------------------------- *)
\* Python's None
None == <<>>

RECURSIVE SumSeq(_)
\* the sum of the entries of a vector
SumSeq(v) == IF Len(v) = 0 THEN 0 ELSE v[1] + SumSeq(Tail(v))

\* the sum of a vector of possibly non-finite entries
SumFinite(v) ==
    IF \E i \in DOMAIN v : ~IsFinite(v[i]) THEN NON_FINITE ELSE SumSeq(v)

\* the largest entry of a non-empty vector
MaxSeq(v) == CHOOSE m \in {v[i] : i \in DOMAIN v} : \A i \in DOMAIN v : v[i] <= m

\* the inner product of two vectors of the same length
Dot(u, v) == SumSeq([i \in DOMAIN u |-> Mul(u[i], v[i])])

\* a vector written out: the tuple of its entries
Row(v) == v \o <<>>

\* a tensor of rows written out: the tuple of its rows, each the tuple of its
\* entries
Tensor(m) == Row([r \in DOMAIN m |-> Row(m[r])])

\* an exact fraction num / den of grid values: an entry of a softmax output
Frac(n, d) == [num |-> n, den |-> d]

\* the grid value nearest zero-ward to a fraction
FracToGrid(f) == Quo(f.num, f.den)

(* --------------------------- MyNeuralNet ------------------------------ *)
\* a small pseudo-random grid value in {-0.5, -0.25, 0, 0.25, 0.5}
Pat(seed, i, j) == (((seed * 3 + i * 2 + j * 4) % 5) - 2) * (SCALE \div 4)

\* torch.nn.Linear(n_in, n_out): weight of shape (n_out, n_in) and bias (n_out)
Linear_init(n_in, n_out, seed) ==
    [weight |-> [k \in 1..n_out |-> [i \in 1..n_in |-> Pat(seed, k, i)]],
     bias   |-> [k \in 1..n_out |-> Pat(seed + 1, k, 0)]]

\* torch.nn.Linear.forward on a batch x of rows
Linear(lin, x) ==
    Tensor([r \in DOMAIN x |->
            [k \in DOMAIN lin.weight |-> Dot(lin.weight[k], x[r]) + lin.bias[k]]])

\* torch.nn.ReLU
ReLU(x) ==
    Tensor([r \in DOMAIN x |-> [k \in DOMAIN x[r] |-> Max(x[r][k], 0)]])

\* variant of Softmax: the exponentials, not divided by their sum
Softmax_unnormalised(x) ==
    [r \in DOMAIN x |->
        LET m == MaxSeq(x[r])
        IN  [k \in DOMAIN x[r] |-> Frac(Exp(x[r][k] - m), SCALE)]]

\* torch.nn.Softmax(dim=-1): each row's exponentials over their sum
Softmax(x) ==
    Tensor([r \in DOMAIN x |->
            LET m == MaxSeq(x[r])
                e == Row([k \in DOMAIN x[r] |-> Exp(x[r][k] - m)])
                d == SumSeq(e)
            IN  [k \in DOMAIN x[r] |-> Frac(e[k], d)]])

\* torch.exp on a batch
ExpT(x) ==
    Tensor([r \in DOMAIN x |-> [k \in DOMAIN x[r] |-> Exp(x[r][k])]])

\* variant of MyNeuralNet.__init__: the link "exp" is not recognised
MyNeuralNet_init_no_exp(n_input, n_output, link_var, seed) ==
    [l0 |-> Linear_init(n_input, N_HIDDEN, seed),
     l2 |-> Linear_init(N_HIDDEN, n_output, seed + 2),
     transformation |-> IF link_var = "softmax" THEN "Softmax" ELSE "None"]

\* variant of MyNeuralNet.__init__: every link other than "softmax" is taken
\* for the exponential
MyNeuralNet_init_exp_otherwise(n_input, n_output, link_var, seed) ==
    [l0 |-> Linear_init(n_input, N_HIDDEN, seed),
     l2 |-> Linear_init(N_HIDDEN, n_output, seed + 2),
     transformation |-> IF link_var = "softmax" THEN "Softmax" ELSE "exp"]

\* MyNeuralNet.__init__
MyNeuralNet_init(n_input, n_output, link_var, seed) ==
    [l0 |-> Linear_init(n_input, N_HIDDEN, seed),
     l2 |-> Linear_init(N_HIDDEN, n_output, seed + 2),
     transformation |->
        IF link_var = "softmax" THEN "Softmax"
        ELSE IF link_var = "exp" THEN "exp"
        ELSE "None"]

\* a tensor of nrows rows of ncols entries
has_shape(m, nrows, ncols) ==
    /\ Len(m) = nrows
    /\ \A r \in DOMAIN m : Len(m[r]) = ncols

\* torch.nn.Linear takes x when its trailing dimension is in_features;
\* otherwise RuntimeError (shape mismatch)
Linear_accepts(lin, x) == \A r \in DOMAIN x : Len(x[r]) = Len(lin.weight[1])

\* MyNeuralNet takes x when its first layer does; the second layer takes the
\* hidden width
MyNeuralNet_accepts(net, x) ==
    /\ Linear_accepts(net.l0, x)
    /\ Len(net.l2.weight[1]) = Len(net.l0.weight)

\* self.neural_net(x): Linear, ReLU, Linear
neural_net(net, x) == Linear(net.l2, ReLU(Linear(net.l0, x)))

\* MyNeuralNet.forward
MyNeuralNet_forward(net, x) ==
    LET output == neural_net(net, x)
    IN  IF net.transformation = "Softmax" THEN Softmax(output)
        ELSE IF net.transformation = "exp" THEN ExpT(output)
        ELSE output

(* ---------------------- the random generator --------------------------- *)
\* the standard-normal value the generator yields in state c
Gauss(c) == (((c * 2) % 5) - 2) * (SCALE \div 2)

\* torch's _standard_normal(shape): one value per entry, in row-major order
standard_normal(gen, nrows, ncols) ==
    Tensor([r \in 1..nrows |->
            [j \in 1..ncols |-> Gauss((gen + (r - 1) * ncols + (j - 1)) % RNG_PERIOD)]])

\* the state of the generator after drawing a tensor of that shape
rng_after(gen, nrows, ncols) == (gen + nrows * ncols) % RNG_PERIOD

\* Normal(loc, scale).rsample(): loc + eps * scale, eps drawn from the generator
rsample(loc, scale, gen) ==
    Tensor(LET eps == standard_normal(gen, Len(loc), Len(loc[1]))
        IN  [r \in DOMAIN loc |->
                [j \in DOMAIN loc[r] |-> loc[r][j] + Mul(eps[r][j], scale[r][j])]])

\* torch.sqrt on a batch
SqrtT(x) ==
    Tensor([r \in DOMAIN x |-> [k \in DOMAIN x[r] |-> Sqrt(x[r][k])]])

(* ----------------------------- MyModule -------------------------------- *)
\* REGISTRY_KEYS.X_KEY
X_KEY == "X"

\* torch.randn(n_input): the initial log-dispersions
randn(n, seed) == [g \in 1..n |-> 2 * Pat(seed, g, 1)]

\* variant of MyModule.__init__: the widths of the encoders are swapped
MyModule_init_swapped(n_input, n_latent, seed) ==
    [cls          |-> "MyModule",
     decoder      |-> MyNeuralNet_init(n_latent, n_input, "softmax", seed),
     log_theta    |-> randn(n_input, seed + 4),
     mean_encoder |-> MyNeuralNet_init(n_latent, n_input, "none", seed + 5),
     var_encoder  |-> MyNeuralNet_init(n_latent, n_input, "exp", seed + 9)]

\* MyModule.__init__
MyModule_init(n_input, n_latent, seed) ==
    [cls          |-> "MyModule",
     decoder      |-> MyNeuralNet_init(n_latent, n_input, "softmax", seed),
     log_theta    |-> randn(n_input, seed + 4),
     mean_encoder |-> MyNeuralNet_init(n_input, n_latent, "none", seed + 5),
     var_encoder  |-> MyNeuralNet_init(n_input, n_latent, "exp", seed + 9)]

\* variant of _get_inference_input: the batch index is fetched as well
MyModule_get_inference_input_with_batch(tensors_) ==
    [x |-> tensors_[X_KEY], batch_index |-> tensors_["batch"]]

\* def inference(self, x): the parameters after self
MyModule_inference_params == <<"x">>

\* def generative(self, z, library): the parameters after self
MyModule_generative_params == <<"z", "library">>

\* the keys MyModule.loss reads of inference_outputs and of generative_outputs
MyModule_loss_reads ==
    [inference_outputs |-> {"qz_m", "qz_v"}, generative_outputs |-> {"px_rate", "theta"}]

\* Python's binding of a call f(**kwargs) to parameters without defaults: the
\* keys are exactly the parameters; otherwise TypeError
accepts_keywords(params, kwargs) ==
    DOMAIN kwargs = {params[i] : i \in DOMAIN params}

\* MyModule._get_inference_input
MyModule_get_inference_input(tensors_) == [x |-> tensors_[X_KEY]]

\* torch.log(1 + x)
log1p(x) ==
    Tensor([r \in DOMAIN x |-> [i \in DOMAIN x[r] |-> Log(SCALE + x[r][i])]])

\* variant of MyModule.inference: the draw comes from the global generator as
\* it stands, whatever state the caller seeded
MyModule_inference_unseeded(self, x, gen) ==
    LET x_   == log1p(x)
        qz_m == MyNeuralNet_forward(self.mean_encoder, x_)
        qz_v == MyNeuralNet_forward(self.var_encoder, x_)
        z    == rsample(qz_m, SqrtT(qz_v), rng)
    IN  [qz_m |-> qz_m, qz_v |-> qz_v, z |-> z]

\* MyModule.inference, with the generator in state gen
MyModule_inference(self, x, gen) ==
    LET x_   == log1p(x)
        qz_m == MyNeuralNet_forward(self.mean_encoder, x_)
        qz_v == MyNeuralNet_forward(self.var_encoder, x_)
        z    == rsample(qz_m, SqrtT(qz_v), gen)
    IN  [qz_m |-> qz_m, qz_v |-> qz_v, z |-> z]

\* variant of the row sum: the size factors of the previous pass are kept and
\* returned again
sum_dim1_keepdim_cached(x) ==
    IF last_library # None THEN last_library ELSE [r \in DOMAIN x |-> <<SumSeq(x[r])>>]

\* torch.sum(x, dim=1, keepdim=True)
sum_dim1_keepdim(x) == [r \in DOMAIN x |-> <<SumSeq(x[r])>>]

\* variant of _get_generative_input: the counts are put in the dictionary too
MyModule_get_generative_input_with_x(tensors_, inference_outputs_) ==
    LET z       == inference_outputs_["z"]
        x       == tensors_[X_KEY]
        library == sum_dim1_keepdim(x)
    IN  [z |-> z, library |-> library, x |-> x]

\* MyModule._get_generative_input
MyModule_get_generative_input(tensors_, inference_outputs_) ==
    LET z       == inference_outputs_["z"]
        x       == tensors_[X_KEY]
        library == sum_dim1_keepdim(x)
    IN  [z |-> z, library |-> library]

\* library * px_scale: the (B, 1) size factor broadcast over the features
scale_by_library(library, px_scale) ==
    Tensor([r \in DOMAIN px_scale |->
            [g \in DOMAIN px_scale[r] |->
                Frac(Mul(library[r][1], px_scale[r][g].num), px_scale[r][g].den)]])

\* variant of the dispersion: log_theta itself, not exponentiated
exp_log_theta_raw(self) == self.log_theta

\* torch.exp(self.log_theta)
exp_log_theta(self) ==
    Row([g \in DOMAIN self.log_theta |-> Exp(self.log_theta[g])])

\* variant of MyModule.generative: the size factor accumulates over the calls
MyModule_generative_accumulating(self, z, library) ==
    LET px_scale == MyNeuralNet_forward(self.decoder, z)
        total    == [r \in DOMAIN library |-> <<library[r][1] * (gen_calls + 1)>>]
        px_rate  == scale_by_library(total, px_scale)
        theta    == exp_log_theta(self)
    IN  [px_scale |-> px_scale, theta |-> theta, px_rate |-> px_rate]

\* MyModule.generative
MyModule_generative(self, z, library) ==
    LET px_scale == MyNeuralNet_forward(self.decoder, z)
        px_rate  == scale_by_library(library, px_scale)
        theta    == exp_log_theta(self)
    IN  [px_scale |-> px_scale, theta |-> theta, px_rate |-> px_rate]

(* ---------------------- torch.distributions ---------------------------- *)
\* a - b on possibly non-finite values
Sub(a, b) == IF IsFinite(a) /\ IsFinite(b) THEN a - b ELSE NON_FINITE

\* softplus(t) = log(1 + exp(t)), computed as max(t, 0) + log(1 + exp(-|t|))
Softplus(t) == Max(t, 0) + Log(SCALE + Exp(-Abs(t)))

\* logsigmoid(t) = -softplus(-t)
LogSigmoid(t) == -Softplus(-t)

RECURSIVE LogRising(_, _)
\* lgamma(t + n) - lgamma(t) = log t + log(t + 1) + ... + log(t + n - 1)
LogRising(t, n) ==
    IF n = 0 THEN 0 ELSE Log(t + (n - 1) * SCALE) + LogRising(t, n - 1)

\* NegativeBinomial(total_count, logits).log_prob(value), value a whole count
NegativeBinomial_log_prob(total_count, logits, value) ==
    IF ~IsFinite(logits) THEN NON_FINITE
    ELSE LET n == value \div SCALE
             log_unnormalized_prob ==
                 Mul(total_count, LogSigmoid(-logits)) + Mul(value, LogSigmoid(logits))
             log_normalization ==
                 LogRising(SCALE, n) - LogRising(total_count, n)
         IN  log_unnormalized_prob - log_normalization

\* kl(Normal(p_loc, p_scale), Normal(q_loc, q_scale)) of one entry
kl_normal_normal(p_loc, p_scale, q_loc, q_scale) ==
    LET ratio     == Quo(p_scale, q_scale)
        var_ratio == Mul(ratio, ratio)
        d         == Quo(p_loc - q_loc, q_scale)
        t1        == Mul(d, d)
    IN  DivT(var_ratio + t1 - SCALE - Log(var_ratio), 2)

\* -x on a possibly non-finite value
Neg(a) == IF IsFinite(a) THEN -a ELSE NON_FINITE

\* torch.mean of a vector
mean(v) ==
    LET total == SumFinite(v)
    IN  IF IsFinite(total) THEN DivT(total, Len(v)) ELSE NON_FINITE

(* ------------------------- MyModule.loss -------------------------------- *)
\* variant of the first logarithm's argument: px_rate with no epsilon added
rate_log_arg_no_eps(rate) == FracToGrid(rate)

\* px_rate + 1e-4, the argument of the first logarithm of nb_logits
rate_log_arg(rate) == FracToGrid(rate) + EPS

\* theta + 1e-4, the argument of the second logarithm of nb_logits
theta_log_arg(th) == th + EPS

\* (px_rate + 1e-4).log() - (theta + 1e-4).log()
nb_logits_of(px_rate, theta) ==
    Tensor([r \in DOMAIN px_rate |->
            [g \in DOMAIN px_rate[r] |->
                Sub(Log(rate_log_arg(px_rate[r][g])), Log(theta_log_arg(theta[g])))]])

\* NegativeBinomial(total_count=theta, logits=nb_logits).log_prob(x), per entry
nb_log_prob(theta, nb_logits, x) ==
    Tensor([r \in DOMAIN x |->
            [g \in DOMAIN x[r] |->
                NegativeBinomial_log_prob(theta[g], nb_logits[r][g], x[r][g])]])

\* Normal(loc, scale)
Normal(loc, scale) == [dist |-> "Normal", loc |-> loc, scale |-> scale]

\* torch.zeros_like and torch.ones_like
full_like(x, value) == [r \in DOMAIN x |-> [j \in DOMAIN x[r] |-> value]]

\* kl(p, q) of two Normal distributions, per entry
kl(p, q) ==
    Tensor([r \in DOMAIN p.loc |->
            [j \in DOMAIN p.loc[r] |->
                kl_normal_normal(p.loc[r][j], p.scale[r][j], q.loc[r][j], q.scale[r][j])]])

\* LossRecorder(loss, reconstruction_loss, kl_local, kl_global)
LossRecorder(loss, reconstruction_loss, kl_local, kl_global) ==
    [loss |-> loss, reconstruction_loss |-> reconstruction_loss,
     kl_local |-> kl_local, kl_global |-> kl_global]

\* the locals of MyModule.loss up to the ELBO
MyModule_loss_terms(self, tensors_, inference_outputs_, generative_outputs_) ==
    LET x         == tensors_[X_KEY]
        px_rate   == generative_outputs_["px_rate"]
        theta     == generative_outputs_["theta"]
        qz_m      == inference_outputs_["qz_m"]
        qz_v      == inference_outputs_["qz_v"]
        nb_logits == nb_logits_of(px_rate, theta)
        lp        == nb_log_prob(theta, nb_logits, x)
        log_lik   == [r \in DOMAIN x |-> SumFinite(lp[r])]
        prior_dist    == Normal(full_like(qz_m, 0), full_like(qz_v, SCALE))
        var_post_dist == Normal(qz_m, SqrtT(qz_v))
        klm           == kl(var_post_dist, prior_dist)
        kl_divergence == [r \in DOMAIN x |-> SumSeq(klm[r])]
        elbo      == [r \in DOMAIN x |-> Sub(log_lik[r], kl_divergence[r])]
    IN  [nb_logits |-> nb_logits, log_lik |-> log_lik, prior_dist |-> prior_dist,
         var_post_dist |-> var_post_dist, kl_divergence |-> kl_divergence,
         elbo |-> elbo]

\* variant of MyModule.loss: the negated ELBO is summed over the rows
MyModule_loss_summed(self, tensors_, inference_outputs_, generative_outputs_) ==
    LET t    == MyModule_loss_terms(self, tensors_, inference_outputs_,
                                    generative_outputs_)
        loss == SumFinite([r \in DOMAIN t.elbo |-> Neg(t.elbo[r])])
    IN  LossRecorder(loss, [r \in DOMAIN t.log_lik |-> Neg(t.log_lik[r])],
                     t.kl_divergence, 0)

\* px_rate, theta and x broadcast in NegativeBinomial(theta, nb_logits).log_prob(x)
\* when px_rate has the shape of x and theta one entry per column; otherwise
\* RuntimeError (shape mismatch)
loss_accepts(x, px_rate, theta) ==
    /\ Len(px_rate) = Len(x)
    /\ \A r \in DOMAIN x : Len(px_rate[r]) = Len(x[r]) /\ Len(theta) = Len(x[r])

\* MyModule.loss
MyModule_loss(self, tensors_, inference_outputs_, generative_outputs_) ==
    LET t    == MyModule_loss_terms(self, tensors_, inference_outputs_,
                                    generative_outputs_)
        loss == mean([r \in DOMAIN t.elbo |-> Neg(t.elbo[r])])
    IN  LossRecorder(loss, [r \in DOMAIN t.log_lik |-> Neg(t.log_lik[r])],
                     t.kl_divergence, 0)

(* --------------------------- MyPyroModule ------------------------------- *)
\* MyPyroModule.__init__
MyPyroModule_init(n_input, n_latent, seed) ==
    [cls          |-> "MyPyroModule",
     n_latent     |-> n_latent,
     n_input      |-> n_input,
     decoder      |-> MyNeuralNet_init(n_latent, n_input, "softmax", seed),
     log_theta    |-> randn(n_input, seed + 4),
     mean_encoder |-> MyNeuralNet_init(n_input, n_latent, "none", seed + 5),
     var_encoder  |-> MyNeuralNet_init(n_input, n_latent, "exp", seed + 9)]

\* variant of _get_fn_args_from_batch: the library is passed by keyword
MyPyroModule_get_fn_args_from_batch_by_keyword(tensor_dict) ==
    LET x       == tensor_dict[X_KEY]
        library == [r \in DOMAIN x |-> <<SumSeq(x[r])>>]
    IN  [args |-> <<x>>, kwargs |-> [library |-> library]]

\* MyPyroModule._get_fn_args_from_batch
MyPyroModule_get_fn_args_from_batch(tensor_dict) ==
    LET x       == tensor_dict[X_KEY]
        library == sum_dim1_keepdim(x)
    IN  [args |-> <<x, library>>, kwargs |-> None]

\* def model(self, x, library): the parameters after self, none with a default
MyPyroModule_model_params == <<"x", "library">>

\* def guide(self, x, log_library): the parameters after self, none with a default
MyPyroModule_guide_params == <<"x", "log_library">>

\* Python's binding of a call f(*args, **kwargs) to parameters without defaults:
\* no more positional arguments than parameters, every keyword names a parameter
\* not filled by position, and every parameter is filled; otherwise TypeError
accepts(params, args, kwargs) ==
    /\ Len(args) <= Len(params)
    /\ \A k \in DOMAIN kwargs :
          \E i \in (Len(args) + 1)..Len(params) : params[i] = k
    /\ \A i \in (Len(args) + 1)..Len(params) : params[i] \in DOMAIN kwargs

\* x.new_zeros((x.shape[0], n)) and x.new_ones((x.shape[0], n))
new_full(x, n, value) == [r \in DOMAIN x |-> [j \in 1..n |-> value]]

\* variant of MyPyroModule.model: the prior of "latent" is declared without
\* .to_event(1)
MyPyroModule_model_no_to_event(self, x, library, z) ==
    LET z_loc     == new_full(x, self.n_latent, 0)
        z_scale   == new_full(x, self.n_latent, SCALE)
        px_scale  == MyNeuralNet_forward(self.decoder, z)
        px_rate   == scale_by_library(library, px_scale)
        theta     == exp_log_theta(self)
        nb_logits == nb_logits_of(px_rate, theta)
    IN  [plate  |-> [name |-> "data", size |-> Len(x)],
         latent |-> [fn |-> [dist |-> "Normal", loc |-> z_loc, scale |-> z_scale,
                             event_dim |-> 0],
                     value |-> z, is_observed |-> FALSE],
         obs    |-> [fn |-> [dist |-> "NegativeBinomial", total_count |-> theta,
                             logits |-> nb_logits, event_dim |-> 1],
                     value |-> x, is_observed |-> TRUE],
         px_scale |-> px_scale, px_rate |-> px_rate]

\* MyPyroModule.model; z is the value of the site "latent", which the guide drew
MyPyroModule_model(self, x, library, z) ==
    LET z_loc     == new_full(x, self.n_latent, 0)
        z_scale   == new_full(x, self.n_latent, SCALE)
        px_scale  == MyNeuralNet_forward(self.decoder, z)
        px_rate   == scale_by_library(library, px_scale)
        theta     == exp_log_theta(self)
        nb_logits == nb_logits_of(px_rate, theta)
    IN  [plate  |-> [name |-> "data", size |-> Len(x)],
         latent |-> [fn |-> [dist |-> "Normal", loc |-> z_loc, scale |-> z_scale,
                             event_dim |-> 1],
                     value |-> z, is_observed |-> FALSE],
         obs    |-> [fn |-> [dist |-> "NegativeBinomial", total_count |-> theta,
                             logits |-> nb_logits, event_dim |-> 1],
                     value |-> x, is_observed |-> TRUE],
         px_scale |-> px_scale, px_rate |-> px_rate]

\* variant of MyPyroModule.guide: the mean is offset by the size-factor argument
MyPyroModule_guide_offset_by_library(self, x, log_library, gen) ==
    LET x_   == log1p(x)
        qz_m == MyNeuralNet_forward(self.mean_encoder, x_)
        qz_v == MyNeuralNet_forward(self.var_encoder, x_)
        loc  == [r \in DOMAIN qz_m |->
                    [j \in DOMAIN qz_m[r] |-> qz_m[r][j] + log_library[r][1]]]
    IN  [plate  |-> [name |-> "data", size |-> Len(x)],
         latent |-> [fn |-> [dist |-> "Normal", loc |-> loc, scale |-> SqrtT(qz_v),
                             event_dim |-> 1],
                     value |-> rsample(loc, SqrtT(qz_v), gen),
                     is_observed |-> FALSE],
         qz_v   |-> qz_v]

\* variant of MyPyroModule.guide: the variance is passed as the scale
MyPyroModule_guide_variance_as_scale(self, x, log_library, gen) ==
    LET x_   == log1p(x)
        qz_m == MyNeuralNet_forward(self.mean_encoder, x_)
        qz_v == MyNeuralNet_forward(self.var_encoder, x_)
    IN  [plate  |-> [name |-> "data", size |-> Len(x)],
         latent |-> [fn |-> [dist |-> "Normal", loc |-> qz_m, scale |-> qz_v,
                             event_dim |-> 1],
                     value |-> rsample(qz_m, qz_v, gen),
                     is_observed |-> FALSE],
         qz_v   |-> qz_v]

\* MyPyroModule.guide, with the generator in state gen
MyPyroModule_guide(self, x, log_library, gen) ==
    LET x_   == log1p(x)
        qz_m == MyNeuralNet_forward(self.mean_encoder, x_)
        qz_v == MyNeuralNet_forward(self.var_encoder, x_)
    IN  [plate  |-> [name |-> "data", size |-> Len(x)],
         latent |-> [fn |-> [dist |-> "Normal", loc |-> qz_m, scale |-> SqrtT(qz_v),
                             event_dim |-> 1],
                     value |-> rsample(qz_m, SqrtT(qz_v), gen),
                     is_observed |-> FALSE],
         qz_v   |-> qz_v]

(* ------------------------- the data loader ------------------------------ *)
\* the counts of batch number k: batch 0 is all zeros
batch_counts(k) ==
    [r \in 1..BATCH |->
        [g \in 1..N_INPUT |-> ((k * (r + 2 * g)) % (MaxCount + 1)) * SCALE]]

\* the mappings the data loader supplies: the counts and the batch index
Batches ==
    {[X |-> batch_counts(k), batch |-> [r \in 1..BATCH |-> <<0>>]] : k \in 0..(NBatches - 1)}

(* --------------------------- the optimizer ------------------------------ *)
\* the learning rate times one entry of the gradient direction g
Delta(g, i, j) == (((g + i + j) % 3) - 1) * (SCALE \div 10)

\* an optimizer step on a Linear layer
Linear_step(lin, g) ==
    [weight |-> [k \in DOMAIN lin.weight |->
                    [i \in DOMAIN lin.weight[k] |-> lin.weight[k][i] - Delta(g, k, i)]],
     bias   |-> [k \in DOMAIN lin.bias |-> lin.bias[k] - Delta(g, k, 0)]]

\* an optimizer step on a MyNeuralNet
MyNeuralNet_step(net, g) ==
    [net EXCEPT !.l0 = Linear_step(@, g), !.l2 = Linear_step(@, g + 1)]

\* an optimizer step on every parameter of the module
optimizer_step(self, g) ==
    [self EXCEPT !.decoder      = MyNeuralNet_step(@, g),
                 !.log_theta    = [i \in DOMAIN @ |-> @[i] - Delta(g, i, 1)],
                 !.mean_encoder = MyNeuralNet_step(@, g + 1),
                 !.var_encoder  = MyNeuralNet_step(@, g + 2)]

\* the parameters of a module: what the optimizer owns
parameters(self) ==
    <<self.decoder.l0, self.decoder.l2, self.log_theta,
      self.mean_encoder.l0, self.mean_encoder.l2,
      self.var_encoder.l0, self.var_encoder.l2>>

(* ------------------- the trainer and forward ---------------------------- *)
\* variant of the routines' effect on self: loss applies an update itself
self_after_updating(self, routine) ==
    IF routine = "loss" THEN optimizer_step(self, 1) ELSE self

\* the module after one of its routines returned: inference, generative and loss
\* (and their input selectors) assign no attribute of self
self_after(self, routine) == self

\* variant of the trainer: an update may also follow inference at once
may_update_early(stage) == stage \in {"inferred", "lossed", "modelled"}

\* the trainer updates the parameters from the gradients of the loss: after loss
\* (manual path) or after model and guide (Pyro path) have returned
may_update(stage) == stage \in {"lossed", "modelled"}

\* the size factors the pass that is ending computed, for the history
library_of_pass ==
    IF generative_inputs # None THEN generative_inputs["library"]
    ELSE IF fn_args # None THEN fn_args.args[2]
    ELSE last_library

\* the locals of a pass that has not run yet
NoLocals ==
    /\ rng0' = 0
    /\ inference_outputs' = None
    /\ replay_outputs' = None
    /\ generative_inputs' = None
    /\ generative_outputs' = None
    /\ gen_calls' = 0
    /\ losses' = None
    /\ fn_args' = None
    /\ guide_trace' = None
    /\ model_trace' = None

Init ==
    /\ module \in {MyModule_init(N_INPUT, N_LATENT, SEED),
                  MyPyroModule_init(N_INPUT, N_LATENT, SEED)}
    /\ rng \in 0..(RNG_PERIOD - 1)
    /\ steps = 0
    /\ pc = "idle"
    /\ tensors = None
    /\ rng0 = 0
    /\ inference_outputs = None
    /\ replay_outputs = None
    /\ generative_inputs = None
    /\ generative_outputs = None
    /\ gen_calls = 0
    /\ losses = None
    /\ fn_args = None
    /\ guide_trace = None
    /\ model_trace = None
    /\ last_library = None

\* the data loader hands the trainer the next batch
LoadBatch ==
    /\ pc = "idle"
    /\ UNCHANGED last_library
    /\ tensors' \in Batches
    /\ pc' = "batch"
    /\ NoLocals
    /\ UNCHANGED <<module, rng, steps>>

\* forward, step 1: inference(**_get_inference_input(tensors))
InferenceStep ==
    /\ pc = "batch"
    /\ UNCHANGED last_library
    /\ module.cls = "MyModule"
    /\ accepts_keywords(MyModule_inference_params, MyModule_get_inference_input(tensors))
    /\ MyNeuralNet_accepts(module.mean_encoder, log1p(tensors[X_KEY]))
    /\ MyNeuralNet_accepts(module.var_encoder, log1p(tensors[X_KEY]))
    /\ LET inference_inputs == MyModule_get_inference_input(tensors)
           outputs == MyModule_inference(module, inference_inputs["x"], rng)
       IN  /\ inference_outputs' = outputs
           /\ rng' = rng_after(rng, Len(outputs["z"]), Len(outputs["z"][1]))
    /\ rng0' = rng
    /\ module' = self_after(module, "inference")
    /\ pc' = "inferred"
    /\ UNCHANGED <<steps, tensors, replay_outputs, generative_inputs,
                   generative_outputs, gen_calls, losses, fn_args, guide_trace,
                   model_trace>>

\* a second run of inference on the same batch, the generator seeded back to rng0
ReplayInference ==
    /\ pc = "inferred"
    /\ UNCHANGED last_library
    /\ replay_outputs = None
    /\ LET inference_inputs == MyModule_get_inference_input(tensors)
           outputs == MyModule_inference(module, inference_inputs["x"], rng0)
       IN  /\ replay_outputs' = outputs
           /\ rng' = rng_after(rng0, Len(outputs["z"]), Len(outputs["z"][1]))
    /\ module' = self_after(module, "inference")
    /\ UNCHANGED <<steps, pc, tensors, rng0, inference_outputs, generative_inputs,
                   generative_outputs, gen_calls, losses, fn_args, guide_trace,
                   model_trace>>

\* forward, step 2: generative(**_get_generative_input(tensors, inference_outputs))
GenerativeStep ==
    /\ pc = "inferred"
    /\ UNCHANGED last_library
    /\ accepts_keywords(MyModule_generative_params,
                        MyModule_get_generative_input(tensors, inference_outputs))
    /\ MyNeuralNet_accepts(module.decoder, inference_outputs["z"])
    /\ LET inputs == MyModule_get_generative_input(tensors, inference_outputs)
       IN  /\ generative_inputs' = inputs
           /\ generative_outputs' =
                 MyModule_generative(module, inputs["z"], inputs["library"])
    /\ gen_calls' = 1
    /\ module' = self_after(module, "generative")
    /\ pc' = "generated"
    /\ UNCHANGED <<rng, steps, tensors, rng0, inference_outputs, replay_outputs,
                   losses, fn_args, guide_trace, model_trace>>

\* generative called once more with the same z and library
GenerativeAgain ==
    /\ pc = "generated"
    /\ UNCHANGED last_library
    /\ gen_calls = 1
    /\ generative_outputs' =
          MyModule_generative(module, generative_inputs["z"],
                              generative_inputs["library"])
    /\ gen_calls' = 2
    /\ module' = self_after(module, "generative")
    /\ UNCHANGED <<rng, steps, pc, tensors, rng0, inference_outputs, replay_outputs,
                   generative_inputs, losses, fn_args, guide_trace, model_trace>>

\* forward, step 3: loss(tensors, inference_outputs, generative_outputs)
LossStep ==
    /\ pc = "generated"
    /\ UNCHANGED last_library
    /\ MyModule_loss_reads.inference_outputs \subseteq DOMAIN inference_outputs
    /\ MyModule_loss_reads.generative_outputs \subseteq DOMAIN generative_outputs
    /\ loss_accepts(tensors[X_KEY], generative_outputs["px_rate"],
                    generative_outputs["theta"])
    /\ losses' = MyModule_loss(module, tensors, inference_outputs, generative_outputs)
    /\ module' = self_after(module, "loss")
    /\ pc' = "lossed"
    /\ UNCHANGED <<rng, steps, tensors, rng0, inference_outputs, replay_outputs,
                   generative_inputs, generative_outputs, gen_calls, fn_args,
                   guide_trace, model_trace>>

\* the Pyro trainer: args, kwargs = _get_fn_args_from_batch(tensors)
FnArgsStep ==
    /\ pc = "batch"
    /\ UNCHANGED last_library
    /\ module.cls = "MyPyroModule"
    /\ fn_args' = MyPyroModule_get_fn_args_from_batch(tensors)
    /\ pc' = "args"
    /\ UNCHANGED <<module, rng, steps, tensors, rng0, inference_outputs,
                   replay_outputs, generative_inputs, generative_outputs, gen_calls,
                   losses, guide_trace, model_trace>>

\* the inference engine runs guide(*args, **kwargs) and draws its site
GuideStep ==
    /\ pc = "args"
    /\ UNCHANGED last_library
    /\ accepts(MyPyroModule_guide_params, fn_args.args, fn_args.kwargs)
    /\ MyNeuralNet_accepts(module.mean_encoder, log1p(fn_args.args[1]))
    /\ MyNeuralNet_accepts(module.var_encoder, log1p(fn_args.args[1]))
    /\ LET trace == MyPyroModule_guide(module, fn_args.args[1], fn_args.args[2], rng)
       IN  /\ guide_trace' = trace
           /\ rng' = rng_after(rng, Len(trace.latent.value), Len(trace.latent.value[1]))
    /\ rng0' = rng
    /\ pc' = "guided"
    /\ UNCHANGED <<module, steps, tensors, inference_outputs, replay_outputs,
                   generative_inputs, generative_outputs, gen_calls, losses, fn_args,
                   model_trace>>

\* the inference engine replays model(*args, **kwargs) against the guide's draw
ModelStep ==
    /\ pc = "guided"
    /\ UNCHANGED last_library
    /\ accepts(MyPyroModule_model_params, fn_args.args, fn_args.kwargs)
    /\ MyNeuralNet_accepts(module.decoder, guide_trace.latent.value)
    /\ model_trace' = MyPyroModule_model(module, fn_args.args[1], fn_args.args[2],
                                         guide_trace.latent.value)
    /\ pc' = "modelled"
    /\ UNCHANGED <<module, rng, steps, tensors, rng0, inference_outputs,
                   replay_outputs, generative_inputs, generative_outputs, gen_calls,
                   losses, fn_args, guide_trace>>

\* the trainer computes the gradients of the loss and the optimizer updates the
\* parameters in place; the pass is over
OptimizerStep ==
    /\ may_update(pc)
    /\ last_library' = library_of_pass
    /\ steps < MaxSteps
    /\ \E g \in 1..NGrads : module' = optimizer_step(module, g)
    /\ steps' = steps + 1
    /\ pc' = "idle"
    /\ tensors' = None
    /\ NoLocals
    /\ UNCHANGED rng

\* a pass without an update (validation): its locals are dropped
EndPass ==
    /\ pc \in {"lossed", "modelled"}
    /\ last_library' = library_of_pass
    /\ pc' = "idle"
    /\ tensors' = None
    /\ NoLocals
    /\ UNCHANGED <<module, rng, steps>>

(* ----------------- MyNeuralNet on its own, any link_var ----------------- *)
\* values of link_var a caller can construct MyNeuralNet with: the three of
\* the annotation and others
LinkVars == {"softmax", "exp", "none", "identity", "Exp", "linear", ""}

\* MyNeuralNet(N_INPUT, n_output, link_var) has been constructed
InitNet ==
    /\ \E link_var \in LinkVars, n_output \in {N_LATENT, N_INPUT} :
          module = [cls      |-> "MyNeuralNet",
                    link_var |-> link_var,
                    net      |-> MyNeuralNet_init(N_INPUT, n_output, link_var, SEED)]
    /\ rng = 0
    /\ steps = 0
    /\ pc = "built"
    /\ tensors = None
    /\ rng0 = 0
    /\ inference_outputs = None
    /\ replay_outputs = None
    /\ generative_inputs = None
    /\ generative_outputs = None
    /\ gen_calls = 0
    /\ losses = None
    /\ fn_args = None
    /\ guide_trace = None
    /\ model_trace = None
    /\ last_library = None

\* the net is called on the log-counts of a batch: inference_outputs holds what
\* forward returned
NetForward ==
    /\ pc = "built"
    /\ \E batch \in Batches :
          /\ MyNeuralNet_accepts(module.net, log1p(batch[X_KEY]))
          /\ tensors' = batch
          /\ inference_outputs' = MyNeuralNet_forward(module.net, log1p(batch[X_KEY]))
    /\ pc' = "forwarded"
    /\ UNCHANGED <<module, rng, steps, rng0, replay_outputs, generative_inputs,
                   generative_outputs, gen_calls, losses, fn_args, guide_trace,
                   model_trace, last_library>>

\* an optimizer updates the parameters of the net
NetOptimizerStep ==
    /\ pc = "forwarded"
    /\ steps < MaxSteps
    /\ \E g \in 1..NGrads : module' = [module EXCEPT !.net = MyNeuralNet_step(@, g)]
    /\ steps' = steps + 1
    /\ pc' = "built"
    /\ tensors' = None
    /\ inference_outputs' = None
    /\ UNCHANGED <<rng, rng0, replay_outputs, generative_inputs, generative_outputs,
                   gen_calls, losses, fn_args, guide_trace, model_trace,
                   last_library>>

\* the output is dropped
NetDone ==
    /\ pc = "forwarded"
    /\ pc' = "built"
    /\ tensors' = None
    /\ inference_outputs' = None
    /\ UNCHANGED <<module, rng, steps, rng0, replay_outputs, generative_inputs,
                   generative_outputs, gen_calls, losses, fn_args, guide_trace,
                   model_trace, last_library>>

NextNet ==
    \/ NetForward
    \/ NetOptimizerStep
    \/ NetDone

SpecNet == InitNet /\ [][NextNet]_vars

Next ==
    \/ LoadBatch
    \/ InferenceStep
    \/ ReplayInference
    \/ GenerativeStep
    \/ GenerativeAgain
    \/ LossStep
    \/ FnArgsStep
    \/ GuideStep
    \/ ModelStep
    \/ OptimizerStep
    \/ EndPass

Spec == Init /\ [][Next]_vars
(* ============================== claims ================================== *)
\* every entry of a batch of counts is zero
AllZero(x) == \A r \in DOMAIN x : \A g \in DOMAIN x[r] : x[r][g] = 0

\* the sum of a row of fractions over one denominator, as a fraction
FracRowSum(row) == Frac(SumSeq([g \in DOMAIN row |-> row[g].num]), row[1].den)

\* C1: in a pass of the manual path the routines run in the order inference,
\* generative, loss: a step into "inferred" starts from a fresh batch, a step into
\* "generated" starts from "inferred" and hands generative the z that this pass's
\* inference returned, a step into "lossed" starts from "generated" with the
\* inference and generative outputs of this pass untouched, and the parameters of
\* the module change only in a step taken once loss has returned.
C1_ForwardOrder ==
    [][ /\ (pc' = "inferred" /\ pc # "inferred") => pc = "batch"
        /\ (pc' = "generated" /\ pc # "generated") =>
              /\ pc = "inferred"
              /\ inference_outputs' = inference_outputs
              /\ generative_inputs'["z"] = inference_outputs["z"]
        /\ (pc' = "generated") => generative_inputs'["z"] = inference_outputs'["z"]
        /\ (pc' = "lossed") =>
              /\ pc = "generated"
              /\ inference_outputs' = inference_outputs
              /\ generative_outputs' = generative_outputs
              /\ generative_inputs["z"] = inference_outputs["z"]
        /\ (module.cls = "MyModule" /\ parameters(module') # parameters(module)) =>
              pc = "lossed"
      ]_vars

\* C1 witness: a second pass of the manual path has run to the end of loss after
\* an optimizer step.
C1_Witness ==
    /\ pc = "lossed"
    /\ steps > 0
    /\ generative_inputs["z"] = inference_outputs["z"]

\* C2: no step of _get_inference_input, inference, _get_generative_input,
\* generative or loss changes a parameter of the module; a step that changes one
\* is an optimizer step.
C2_ParametersFrame ==
    [][ /\ (module.cls = "MyModule" /\ pc \in {"batch", "inferred", "generated"}) =>
              parameters(module') = parameters(module)
        /\ (parameters(module') # parameters(module)) => steps' = steps + 1
      ]_vars

\* C2 witness: all five routines have run, inference and generative twice, and the
\* parameters are still those of construction.
C2_Witness ==
    /\ pc = "lossed"
    /\ steps = 0
    /\ gen_calls = 2
    /\ replay_outputs # None
    /\ module = MyModule_init(N_INPUT, N_LATENT, SEED)

LogArgsAtLeastEps(px_rate, theta) ==
    /\ \A r \in DOMAIN px_rate :
          \A g \in DOMAIN px_rate[r] : rate_log_arg(px_rate[r][g]) >= EPS
    /\ \A g \in DOMAIN theta : theta_log_arg(theta[g]) >= EPS

\* every entry of a matrix is finite
AllFinite(m) == \A r \in DOMAIN m : \A g \in DOMAIN m[r] : IsFinite(m[r][g])

\* C6: on a batch of all-zero counts library is 0 in each row, px_rate is 0 in
\* every entry and the loss is finite; in MyModule.loss and in MyPyroModule.model
\* both logarithm arguments of nb_logits are at least epsilon, and nb_logits is
\* finite.
C6_EpsilonKeepsLossFinite ==
    /\ losses # None =>
          /\ LogArgsAtLeastEps(generative_outputs["px_rate"],
                               generative_outputs["theta"])
          /\ AllFinite(MyModule_loss_terms(module, tensors, inference_outputs,
                                           generative_outputs).nb_logits)
          /\ AllZero(tensors[X_KEY]) =>
                /\ \A r \in DOMAIN generative_inputs["library"] :
                      generative_inputs["library"][r][1] = 0
                /\ \A r \in DOMAIN generative_outputs["px_rate"] :
                      \A g \in DOMAIN generative_outputs["px_rate"][r] :
                         generative_outputs["px_rate"][r][g].num = 0
                /\ IsFinite(losses.loss)
    /\ model_trace # None =>
          /\ LogArgsAtLeastEps(model_trace.px_rate, model_trace.obs.fn.total_count)
          /\ AllFinite(model_trace.obs.fn.logits)

\* C6 witness: loss has run on the batch of all-zero counts.
C6_Witness ==
    /\ losses # None
    /\ AllZero(tensors[X_KEY])
    /\ IsFinite(losses.loss)

C9_PathsEquivalent ==
    /\ guide_trace # None =>
          LET manual == MyModule_inference(module, tensors[X_KEY], rng0)
          IN  /\ guide_trace.latent.fn.loc = manual["qz_m"]
              /\ guide_trace.qz_v = manual["qz_v"]
              /\ guide_trace.latent.fn.scale = SqrtT(manual["qz_v"])
              /\ guide_trace.latent.value = manual["z"]
    /\ model_trace # None =>
          LET manual == MyModule_inference(module, tensors[X_KEY], rng0)
              inputs == MyModule_get_generative_input(tensors, manual)
              gen    == MyModule_generative(module, inputs["z"], inputs["library"])
              terms  == MyModule_loss_terms(module, tensors, manual, gen)
          IN  /\ model_trace.latent.value = inputs["z"]
              /\ fn_args.args[2] = inputs["library"]
              /\ model_trace.px_rate = gen["px_rate"]
              /\ model_trace.obs.fn.total_count = gen["theta"]
              /\ model_trace.obs.fn.logits = terms.nb_logits
              /\ model_trace.obs.value = tensors[X_KEY]
              /\ model_trace.latent.fn.dist = terms.prior_dist.dist
              /\ model_trace.latent.fn.loc = terms.prior_dist.loc
              /\ model_trace.latent.fn.scale = terms.prior_dist.scale
              /\ guide_trace.latent.fn.dist = terms.var_post_dist.dist
              /\ guide_trace.latent.fn.loc = terms.var_post_dist.loc
              /\ guide_trace.latent.fn.scale = terms.var_post_dist.scale

\* C9 witness: guide and model have run on a batch with counts after an
\* optimizer step, with a variance other than one.
C9_Witness ==
    /\ model_trace # None
    /\ steps > 0
    /\ ~AllZero(tensors[X_KEY])
    /\ guide_trace.qz_v[1][1] # SCALE

\* the log-likelihood of row r: the NegativeBinomial log-probabilities of the
\* row's counts, summed over the features
RowLogLik(r) ==
    SumFinite([g \in 1..N_INPUT |->
        NegativeBinomial_log_prob(
            generative_outputs["theta"][g],
            Sub(Log(rate_log_arg(generative_outputs["px_rate"][r][g])),
                Log(theta_log_arg(generative_outputs["theta"][g]))),
            tensors[X_KEY][r][g])])

\* the KL divergence of row r from the standard normal prior, summed over the
\* latent dimensions
RowKL(r) ==
    SumSeq([j \in 1..N_LATENT |->
        kl_normal_normal(inference_outputs["qz_m"][r][j],
                         Sqrt(inference_outputs["qz_v"][r][j]), 0, SCALE)])

\* C10: the loss is the negated mean over the rows of the batch of log-likelihood
\* minus KL divergence; reconstruction_loss is the negated log-likelihood of each
\* row and kl_local the KL divergence of each row.
C10_LossIsNegativeMeanElbo ==
    losses # None =>
        /\ losses.loss =
              Neg(mean([r \in 1..BATCH |-> Sub(RowLogLik(r), RowKL(r))]))
        /\ losses.reconstruction_loss = [r \in 1..BATCH |-> Neg(RowLogLik(r))]
        /\ losses.kl_local = [r \in 1..BATCH |-> RowKL(r)]

\* C10 witness: loss has run on a batch whose rows differ in their
\* log-likelihood, with a positive KL term.
C10_Witness ==
    /\ losses # None
    /\ IsFinite(losses.loss)
    /\ losses.loss > 0
    /\ losses.reconstruction_loss[1] # losses.reconstruction_loss[2]
    /\ losses.kl_local[1] > 0

\* the sum of the counts of row r of the current batch
RowSum(r) == SumSeq([g \in 1..N_INPUT |-> tensors[X_KEY][r][g]])

\* C11: the library handed to generative (manual path) and to model and guide
\* (Pyro path) is, for each row of the current batch, the one-entry row holding
\* the sum of that row's counts, whatever the batches of the passes before; the
\* px_rate that generative and model return is scaled by that library.
C11_LibraryIsRowSumOfThisPass ==
    /\ generative_inputs # None =>
          generative_inputs["library"] = [r \in 1..BATCH |-> <<RowSum(r)>>]
    /\ generative_outputs # None =>
          \A r \in 1..BATCH :
             FracRowSum(generative_outputs["px_rate"][r]).num
                = Mul(RowSum(r), FracRowSum(generative_outputs["px_rate"][r]).den)
    /\ fn_args # None =>
          /\ fn_args.args[1] = tensors[X_KEY]
          /\ fn_args.args[2] = [r \in 1..BATCH |-> <<RowSum(r)>>]
    /\ model_trace # None =>
          \A r \in 1..BATCH :
             FracRowSum(model_trace.px_rate[r]).num
                = Mul(RowSum(r), FracRowSum(model_trace.px_rate[r]).den)

\* C11 witness: generative has run in a pass whose batch has other row sums than
\* the batch of the pass before.
C11_Witness ==
    /\ generative_outputs # None
    /\ last_library # None
    /\ last_library # generative_inputs["library"]
    /\ generative_inputs["library"][1][1] > 0

\* values a caller can pass as the second argument of guide for a library: the
\* raw library, its logarithm, the logarithm of one plus it, and zeros
SecondArguments(library) ==
    {library,
     [r \in DOMAIN library |-> <<Log(library[r][1])>>],
     [r \in DOMAIN library |-> <<Log(SCALE + library[r][1])>>],
     [r \in DOMAIN library |-> <<0>>]}

\* C12: whatever is passed as the second argument of guide, the distribution it
\* declares for the site "latent" is the Normal(qz_m, sqrt(qz_v)) of the guide
\* that ran, and the value drawn from the same generator state is the same.
C12_GuideIgnoresSecondArgument ==
    guide_trace # None =>
        \A a \in SecondArguments(fn_args.args[2]) :
           LET other == MyPyroModule_guide(module, fn_args.args[1], a, rng0)
           IN  /\ other.latent.fn = guide_trace.latent.fn
               /\ other.latent.value = guide_trace.latent.value
               /\ other.latent.fn.loc =
                     MyNeuralNet_forward(module.mean_encoder, log1p(fn_args.args[1]))
               /\ other.latent.fn.scale =
                     SqrtT(MyNeuralNet_forward(module.var_encoder,
                                               log1p(fn_args.args[1])))

\* C12 witness: guide has run on a batch whose raw library differs from its
\* logarithm and from zero.
C12_Witness ==
    /\ guide_trace # None
    /\ fn_args.args[2][1][1] > 0
    /\ Cardinality(SecondArguments(fn_args.args[2])) >= 3

OtherMappings(t) ==
    {[t EXCEPT !["batch"] = [r \in 1..BATCH |-> <<b>>]] : b \in 1..2}
       \cup {[X |-> t[X_KEY], batch |-> t["batch"],
              labels |-> [r \in 1..BATCH |-> <<r>>]]}

\* what each routine that receives the batch mapping returned is what it returns
\* on any mapping with the same entry under X_KEY
ReadsOnlyXKey ==
    tensors # None =>
        \A other \in OtherMappings(tensors) :
           /\ MyModule_get_inference_input(other) = [x |-> tensors[X_KEY]]
           /\ generative_inputs # None =>
                 MyModule_get_generative_input(other, inference_outputs)
                    = generative_inputs
           /\ losses # None =>
                 MyModule_loss(module, other, inference_outputs, generative_outputs)
                    = losses
           /\ fn_args # None =>
                 MyPyroModule_get_fn_args_from_batch(other) = fn_args

\* C14: _get_inference_input, _get_generative_input, loss and
\* _get_fn_args_from_batch read the batch mapping at X_KEY only: their results
\* are the same on every mapping with the same counts, whatever its other
\* entries; and the mapping of a pass stays the one the data loader supplied.
C14_OnlyXKeyIsRead ==
    /\ ReadsOnlyXKey
    /\ tensors # None => tensors \in Batches

\* C14 witness: the three routines of MyModule have run on a mapping that has
\* an entry besides the counts.
C14_Witness ==
    /\ losses # None
    /\ generative_inputs # None
    /\ DOMAIN tensors # {X_KEY}
    /\ X_KEY \in DOMAIN tensors

\* a tensor of the shape of m with other entries
Altered(m) == [r \in DOMAIN m |-> [j \in DOMAIN m[r] |-> 7 * SCALE]]

\* C15: inference returns exactly the keys qz_m, qz_v and z; the dictionary
\* _get_generative_input makes of them depends on z alone and has exactly the
\* keys z and library, the parameters of generative; generative returns exactly
\* px_scale, theta and px_rate; loss depends on qz_m and qz_v of the inference
\* outputs and on px_rate and theta of the generative outputs alone; so every
\* key a routine reads is there.
C15_KeysProducedBeforeRead ==
    /\ tensors # None =>
          accepts_keywords(MyModule_inference_params,
                           MyModule_get_inference_input(tensors))
    /\ inference_outputs # None =>
          LET inputs == MyModule_get_generative_input(tensors, inference_outputs)
          IN  /\ DOMAIN inference_outputs = {"qz_m", "qz_v", "z"}
              /\ DOMAIN inputs = {"z", "library"}
              /\ accepts_keywords(MyModule_generative_params, inputs)
              /\ inputs["z"] = inference_outputs["z"]
              /\ MyModule_get_generative_input(tensors,
                    [inference_outputs EXCEPT !["qz_m"] = Altered(@),
                                              !["qz_v"] = Altered(@)]) = inputs
    /\ generative_outputs # None =>
          /\ DOMAIN generative_outputs = {"px_scale", "theta", "px_rate"}
          /\ MyModule_loss_reads.inference_outputs \subseteq DOMAIN inference_outputs
          /\ MyModule_loss_reads.generative_outputs \subseteq DOMAIN generative_outputs
    /\ losses # None =>
          MyModule_loss(module, tensors,
                        [inference_outputs EXCEPT !["z"] = Altered(@)],
                        [generative_outputs EXCEPT
                            !["px_scale"] = Altered(inference_outputs["z"])])
             = losses

\* C15 witness: a pass has gone through inference, generative and loss, each
\* finding its keys.
C15_Witness ==
    /\ pc = "lossed"
    /\ DOMAIN generative_inputs = {"z", "library"}
    /\ IsFinite(losses.loss)
    /\ inference_outputs["z"] # Altered(inference_outputs["z"])

\* the names of the sample sites of a trace: its entries other than the plate
\* and the locals kept with it
sample_sites(trace) == DOMAIN trace \ {"plate", "qz_v", "px_scale", "px_rate"}

\* C16: the guide declares the one sample site "latent"; the model declares
\* "latent", not observed, and "obs", observed with the counts x as its value;
\* model and guide declare them in a plate "data" of size x.shape[0]; and
\* "latent" has one event dimension, of width n_latent, over x.shape[0] rows, in
\* both.
C16_SampleSitesMatch ==
    /\ guide_trace # None =>
          /\ sample_sites(guide_trace) = {"latent"}
          /\ ~guide_trace.latent.is_observed
          /\ guide_trace.plate = [name |-> "data", size |-> Len(fn_args.args[1])]
          /\ guide_trace.latent.fn.event_dim = 1
          /\ Len(guide_trace.latent.fn.loc) = Len(fn_args.args[1])
          /\ \A r \in DOMAIN guide_trace.latent.fn.loc :
                /\ Len(guide_trace.latent.fn.loc[r]) = module.n_latent
                /\ Len(guide_trace.latent.fn.scale[r]) = module.n_latent
    /\ model_trace # None =>
          /\ sample_sites(model_trace) = {"latent", "obs"}
          /\ {n \in sample_sites(model_trace) : ~model_trace[n].is_observed}
                = sample_sites(guide_trace)
          /\ model_trace.obs.is_observed
          /\ model_trace.obs.value = fn_args.args[1]
          /\ model_trace.plate = guide_trace.plate
          /\ model_trace.latent.fn.event_dim = guide_trace.latent.fn.event_dim
          /\ model_trace.latent.fn.dist = guide_trace.latent.fn.dist
          /\ Len(model_trace.latent.fn.loc) = Len(guide_trace.latent.fn.loc)
          /\ \A r \in DOMAIN model_trace.latent.fn.loc :
                /\ Len(model_trace.latent.fn.loc[r]) = module.n_latent
                /\ Len(model_trace.latent.value[r]) = module.n_latent

\* C16 witness: guide and model have declared their sites on a batch with counts.
C16_Witness ==
    /\ model_trace # None
    /\ guide_trace # None
    /\ model_trace.latent.value = guide_trace.latent.value
    /\ ~AllZero(model_trace.obs.value)

\* C17: constructing MyNeuralNet succeeds for every link_var; for a link_var
\* other than "softmax" and "exp" the net has no transformation, and forward
\* returns the output of the second affine layer as it is.
C17_UnrecognisedLinkIsIdentity ==
    /\ module.net.transformation \in {"Softmax", "exp", "None"}
    /\ module.link_var \notin {"softmax", "exp"} =>
          /\ module.net.transformation = "None"
          /\ pc = "forwarded" =>
                inference_outputs =
                   Linear(module.net.l2,
                          ReLU(Linear(module.net.l0, log1p(tensors[X_KEY]))))

\* C17 witness: a net constructed with a link_var outside the annotation has
\* returned, after an optimizer step, an output with a negative entry.
C17_Witness ==
    /\ pc = "forwarded"
    /\ module.link_var = "identity"
    /\ steps > 0
    /\ \E r \in DOMAIN inference_outputs :
          \E k \in DOMAIN inference_outputs[r] : inference_outputs[r][k] < 0

\* a net maps width n_in to width n_out
Maps(net, n_in, n_out) ==
    /\ \A k \in DOMAIN net.l0.weight : Len(net.l0.weight[k]) = n_in
    /\ Len(net.l0.bias) = Len(net.l0.weight)
    /\ \A k \in DOMAIN net.l2.weight : Len(net.l2.weight[k]) = Len(net.l0.weight)
    /\ Len(net.l2.weight) = n_out
    /\ Len(net.l2.bias) = n_out

\* C18: in MyModule and in MyPyroModule the encoders map width n_input to
\* n_latent and the decoder n_latent to n_input, with one log_theta per feature;
\* on a batch x of shape (B, n_input) every net takes its input, qz_m, qz_v and
\* z have shape (B, n_latent), px_scale and px_rate have the shape of x, and
\* theta has n_input entries.
C18_ShapesConsistent ==
    /\ Maps(module.mean_encoder, N_INPUT, N_LATENT)
    /\ Maps(module.var_encoder, N_INPUT, N_LATENT)
    /\ Maps(module.decoder, N_LATENT, N_INPUT)
    /\ Len(module.log_theta) = N_INPUT
    /\ tensors # None =>
          /\ has_shape(tensors[X_KEY], BATCH, N_INPUT)
          /\ MyNeuralNet_accepts(module.mean_encoder, log1p(tensors[X_KEY]))
          /\ MyNeuralNet_accepts(module.var_encoder, log1p(tensors[X_KEY]))
    /\ inference_outputs # None =>
          /\ has_shape(inference_outputs["qz_m"], Len(tensors[X_KEY]), N_LATENT)
          /\ has_shape(inference_outputs["qz_v"], Len(tensors[X_KEY]), N_LATENT)
          /\ has_shape(inference_outputs["z"], Len(tensors[X_KEY]), N_LATENT)
          /\ MyNeuralNet_accepts(module.decoder, inference_outputs["z"])
    /\ generative_outputs # None =>
          /\ has_shape(generative_inputs["library"], Len(tensors[X_KEY]), 1)
          /\ has_shape(generative_outputs["px_scale"], Len(tensors[X_KEY]), N_INPUT)
          /\ has_shape(generative_outputs["px_rate"], Len(tensors[X_KEY]), N_INPUT)
          /\ Len(generative_outputs["theta"]) = N_INPUT
          /\ loss_accepts(tensors[X_KEY], generative_outputs["px_rate"],
                          generative_outputs["theta"])
    /\ losses # None =>
          /\ Len(losses.reconstruction_loss) = Len(tensors[X_KEY])
          /\ Len(losses.kl_local) = Len(tensors[X_KEY])
    /\ guide_trace # None =>
          /\ has_shape(guide_trace.latent.fn.loc, Len(tensors[X_KEY]), N_LATENT)
          /\ has_shape(guide_trace.qz_v, Len(tensors[X_KEY]), N_LATENT)
          /\ has_shape(guide_trace.latent.value, Len(tensors[X_KEY]), N_LATENT)
          /\ MyNeuralNet_accepts(module.decoder, guide_trace.latent.value)
    /\ model_trace # None =>
          /\ has_shape(model_trace.px_scale, Len(tensors[X_KEY]), N_INPUT)
          /\ has_shape(model_trace.px_rate, Len(tensors[X_KEY]), N_INPUT)
          /\ has_shape(model_trace.obs.fn.logits, Len(tensors[X_KEY]), N_INPUT)
          /\ Len(model_trace.obs.fn.total_count) = N_INPUT

\* C18 witness: a pass of the manual path has run to the end of loss after an
\* optimizer step, with more features than latent dimensions.
C18_Witness ==
    /\ pc = "lossed"
    /\ steps > 0
    /\ N_INPUT # N_LATENT
    /\ has_shape(inference_outputs["z"], BATCH, N_LATENT)
    /\ has_shape(generative_outputs["px_rate"], BATCH, N_INPUT)

====
